---- MODULE Spec2Model ----
(***************************************************************************)
(* The ledger service of src/main.go: two HTTP handlers over a PostgreSQL  *)
(* store.  handleTransactions (POST /clientes/{id}/transacoes) validates a *)
(* request and calls the stored function credit() or debit();              *)
(* handleStatement (GET /clientes/{id}/extrato) opens a transaction, reads *)
(* the customer's limit and balance, then reads the last 10 transactions.  *)
(*                                                                         *)
(* The store is the two tables the queries of main.go name: customers      *)
(* (id, "limit", balance) and transactions (id, customer_id, amount, type, *)
(* description, created_at).  The stored functions credit() and debit()    *)
(* and the provisioning of the customers live in db.sql, which is not part *)
(* of src/; they are modelled from the specification (sections 3, 4.1).    *)
(*                                                                         *)
(* Each request is handled by its own goroutine; a process of the model is *)
(* one goroutine of net/http, and its steps are the statements of the      *)
(* handler that touch the store, each one atomic at the store.             *)
(***************************************************************************)
EXTENDS Integers, Sequences, FiniteSets, TLC

VARIABLES
    balance,       \* customers.balance, by customer id (committed state)
    transactions,  \* the transactions table, in insertion (id) order
    pc,            \* the position of each request goroutine in its handler
    req,           \* the request each goroutine is handling
    loc,           \* the handler's local variables and its response
    nreq,          \* requests started so far (bounds the exploration)
    main           \* the main goroutine: its position, the connection
                   \* attempts made, the pool, what it printed

vars == <<balance, transactions, pc, req, loc, nreq, main>>

(***************************************************************************)
(* Bounds of the exploration.                                              *)
(***************************************************************************)
NumProcs == 2        \* concurrent request goroutines
MaxReqs == 3         \* requests started in a concurrent run
MaxSeqReqs == 13     \* requests started in a sequential run
MaxInputReqs == 2    \* requests started in a run over the wide input sets
MaxCalls == 2        \* store calls of one request that are counted

Procs == 1..NumProcs

\* The connection pool of pgxpool.New: the connection string sets no
\* pool_max_conns, so the pool holds the library's default of at least 4
\* connections (db.Config() returns a copy, the assignments to it change
\* nothing).  One request more than the pool holds shows what a full pool
\* does, whatever its size.
MaxConns == 4
NumPoolProcs == MaxConns + 1
PoolProcs == 1..NumPoolProcs

(***************************************************************************)
(* Program constants.                                                      *)
(***************************************************************************)
MinCustomerID == 1                 \* customerID < 1  -> 404
MaxCustomerID == 5                 \* customerID > 5  -> 404
MinValue == 1                      \* tr.Value < 1    -> 422
MinDescLen == 1                    \* descLen < 1     -> 422
MaxDescLen == 10                   \* descLen > 10    -> 422
StatementLimit == 10               \* ORDER BY id DESC LIMIT 10
MaxConnectAttempts == 10           \* for i := 0; i < 10; i++
StatusOK == 200
StatusNotFound == 404
StatusUnprocessableEntity == 422
StatusInternalServerError == 500

Customers == MinCustomerID..MaxCustomerID

(***************************************************************************)
(* Provisioning (db.sql): every customer starts with balance 0 and a fixed *)
(* limit.                                                                  *)
(***************************************************************************)
InitialBalance == 0

Limit(c) == IF c = 1 THEN 100 ELSE 1000

(***************************************************************************)
(* Request inputs.  A path id is a string; a description is a string,      *)
(* modelled as the sequence of its codepoints, each given by the number of *)
(* bytes of its UTF-8 encoding (so "aé" is <<1, 2>>: 2 codepoints, 3       *)
(* bytes).                                                                 *)
(***************************************************************************)
Ascii(n) == [i \in 1..n |-> 1]

DescOK == Ascii(3)                       \* "pay"
DescEmpty == <<>>                        \* ""
DescTen == Ascii(10)                     \* 10 codepoints, 10 bytes
DescEleven == Ascii(11)                  \* 11 codepoints, 11 bytes
DescWide == <<2, 2, 2, 2, 2, 2>>         \* 6 codepoints, 12 bytes
DescWideEleven == <<2, 1, 1, 1, 1, 1, 1, 1, 1, 1, 1>>  \* 11 codepoints

\* strconv.Atoi on the path ids the model draws: a decimal string parses to
\* its value, anything else is an error.
Atoi(s) ==
    CASE s = "0" -> [err |-> FALSE, n |-> 0]
      [] s = "1" -> [err |-> FALSE, n |-> 1]
      [] s = "5" -> [err |-> FALSE, n |-> 5]
      [] s = "6" -> [err |-> FALSE, n |-> 6]
      [] OTHER   -> [err |-> TRUE, n |-> 0]

\* RuneCountInString replaced by len(): the number of bytes.
RECURSIVE ByteCount(_)
ByteCount(s) == IF s = <<>> THEN 0 ELSE Head(s) + ByteCount(Tail(s))

\* utf8.RuneCountInString: the number of codepoints, not of bytes.
RuneCountInString(s) == Len(s)

\* ValidValue with the check written as tr.Value == 0.
ValidValueZeroOnly(v) == ~(v = 0)

\* tr.Value < 1 is rejected.
ValidValue(v) == ~(v < MinValue)

\* tr.Type != "d" && tr.Type != "c" is rejected.
ValidType(t) == ~(t /= "d" /\ t /= "c")

\* descLen < 1 || descLen > 10 is rejected.
ValidDescricao(d) ==
    LET descLen == RuneCountInString(d)
    IN  ~(descLen < MinDescLen \/ descLen > MaxDescLen)

\* ValidCustomerID without the lower bound.
ValidCustomerIDUpperOnly(n) == ~(n > MaxCustomerID)

\* customerID < 1 || customerID > 5 is rejected.
ValidCustomerID(n) == ~(n < MinCustomerID \/ n > MaxCustomerID)

\* ValidateTransaction with the checks on the path id made first.
ValidateTransactionIdFirst(r) ==
    IF Atoi(r.idStr).err THEN StatusNotFound
    ELSE IF ~ValidCustomerID(Atoi(r.idStr).n) THEN StatusNotFound
    ELSE IF ~r.decodeOK THEN StatusUnprocessableEntity
    ELSE IF ~ValidValue(r.Value) THEN StatusUnprocessableEntity
    ELSE IF ~ValidType(r.Type) THEN StatusUnprocessableEntity
    ELSE IF ~ValidDescricao(r.Descricao) THEN StatusUnprocessableEntity
    ELSE 0

\* The checks handleTransactions makes before it calls the store, in the
\* order of the code; the first one that fails writes the status and
\* returns.  0 means every check passed.
ValidateTransaction(r) ==
    IF ~r.decodeOK THEN StatusUnprocessableEntity
    ELSE IF ~ValidValue(r.Value) THEN StatusUnprocessableEntity
    ELSE IF ~ValidType(r.Type) THEN StatusUnprocessableEntity
    ELSE IF ~ValidDescricao(r.Descricao) THEN StatusUnprocessableEntity
    ELSE IF Atoi(r.idStr).err THEN StatusNotFound
    ELSE IF ~ValidCustomerID(Atoi(r.idStr).n) THEN StatusNotFound
    ELSE 0

\* The checks handleStatement makes before it opens the transaction.
ValidateStatement(r) ==
    IF Atoi(r.idStr).err THEN StatusNotFound
    ELSE IF ~ValidCustomerID(Atoi(r.idStr).n) THEN StatusNotFound
    ELSE 0

(***************************************************************************)
(* The store.  A row of the transactions table carries its serial id (the  *)
(* per-table sequence, which orders the rows of one customer) and          *)
(* created_at, the logical time of its insertion.                          *)
(***************************************************************************)
Min(a, b) == IF a < b THEN a ELSE b

NewRow(tbl, c, v, t, d) ==
    [id |-> Len(tbl) + 1, customer_id |-> c, amount |-> v, type |-> t,
     description |-> d, created_at |-> Len(tbl) + 1]

\* credit(customer, amount, description) of db.sql: in one database
\* transaction, adds the amount to the balance and inserts the row.  A
\* credit is always accepted.
credit(bal, tbl, c, v, d) ==
    [balance      |-> [bal EXCEPT ![c] = bal[c] + v],
     transactions |-> Append(tbl, NewRow(tbl, c, v, "c", d)),
     newBalance   |-> bal[c] + v,
     success      |-> TRUE,
     limit        |-> Limit(c)]

\* debit(customer, amount, description) of db.sql: in one database
\* transaction, subtracts the amount and inserts the row if and only if the
\* new balance stays at or above -limit; otherwise changes nothing and
\* reports success = false.
debit(bal, tbl, c, v, d) ==
    IF bal[c] - v >= -Limit(c)
    THEN [balance      |-> [bal EXCEPT ![c] = bal[c] - v],
          transactions |-> Append(tbl, NewRow(tbl, c, v, "d", d)),
          newBalance   |-> bal[c] - v,
          success      |-> TRUE,
          limit        |-> Limit(c)]
    ELSE [balance      |-> bal,
          transactions |-> tbl,
          newBalance   |-> bal[c],
          success      |-> FALSE,
          limit        |-> Limit(c)]

\* StoreCall with the two branches exchanged.
StoreCallSwapped(bal, tbl, c, r) ==
    IF r.Type = "c"
    THEN debit(bal, tbl, c, r.Value, r.Descricao)
    ELSE credit(bal, tbl, c, r.Value, r.Descricao)

\* StoreCall with a test that no validated type passes (tr.Type == "C").
StoreCallAlwaysDebit(bal, tbl, c, r) ==
    IF r.Type = "C"
    THEN credit(bal, tbl, c, r.Value, r.Descricao)
    ELSE debit(bal, tbl, c, r.Value, r.Descricao)

\* The store call of handleTransactions: credit() for type "c", debit()
\* for anything else.
StoreCall(bal, tbl, c, r) ==
    IF r.Type = "c"
    THEN credit(bal, tbl, c, r.Value, r.Descricao)
    ELSE debit(bal, tbl, c, r.Value, r.Descricao)

\* ResponseStatus with the test on success inverted.
ResponseStatusInverted(err, success) ==
    IF err \/ success THEN StatusUnprocessableEntity ELSE StatusOK

\* if err != nil || !success: 422, else 200.
ResponseStatus(err, success) ==
    IF err \/ ~success THEN StatusUnprocessableEntity ELSE StatusOK

\* WHERE customer_id = $1 (the table is kept in id order).
SelectWhereCustomer(tbl, c) == SelectSeq(tbl, LAMBDA r : r.customer_id = c)

\* OrderByIdDesc without DESC.
OrderByIdAsc(rows) == rows

\* ORDER BY id DESC, of rows in ascending id order.
OrderByIdDesc(rows) == [i \in 1..Len(rows) |-> rows[Len(rows) + 1 - i]]

\* LimitRows that returns one row fewer.
LimitRowsShort(rows, n) == SubSeq(rows, 1, Min(n, Len(rows)) - 1)

\* LIMIT n.
LimitRows(rows, n) == SubSeq(rows, 1, Min(n, Len(rows)))

\* SELECT amount, type, description, created_at FROM transactions
\* WHERE customer_id = $1 ORDER BY id DESC LIMIT 10.
QueryTransactions(tbl, c) ==
    LimitRows(OrderByIdDesc(SelectWhereCustomer(tbl, c)), StatementLimit)

\* ScanBalance with the destinations exchanged: Scan(&balance, &limit).
ScanBalanceSwapped(bal, c) == [limit |-> bal[c], balance |-> Limit(c)]

\* SELECT "limit", balance FROM customers WHERE id = $1, scanned into
\* (&limit, &balance).
ScanBalance(bal, c) == [limit |-> Limit(c), balance |-> bal[c]]

\* The rows.Next() loop: one transactionRes per row, in the order of the
\* result set.
ScanRows(rows) ==
    [i \in 1..Len(rows) |->
        [Value |-> rows[i].amount, Type |-> rows[i].type,
         Desc |-> rows[i].description, Date |-> rows[i].created_at]]

(***************************************************************************)
(* Handler state.  loc holds the handler's variables (newBalance, success, *)
(* limit, balance, err, rows), the status written to the response, and     *)
(* history fields that no code reads:                                *)
(*   at      rows of the transactions table when the request read or       *)
(*           updated the balance                                           *)
(*   atRows  rows of the transactions table when the statement ran its     *)
(*           transactions query                                            *)
(*   called  the request's store call has returned                         *)
(*   wrote   the request's store call changed the store                    *)
(*   failed  a store call of the request failed                            *)
(*   calls   store calls the transaction request has made (counted up to   *)
(*           MaxCalls)                                                     *)
(*   added   rows the request has added to the transactions table          *)
(***************************************************************************)
NoRequest ==
    [op |-> "none", idStr |-> "", decodeOK |-> TRUE, Value |-> 0, Type |-> "",
     Descricao |-> <<>>]

LocInit ==
    [status |-> 0, newBalance |-> 0, success |-> FALSE, limit |-> 0,
     balance |-> 0, err |-> FALSE, rows |-> <<>>, txBroken |-> FALSE,
     at |-> 0, atRows |-> 0, called |-> FALSE, wrote |-> FALSE,
     failed |-> FALSE, calls |-> 0, added |-> 0]

customerID(p) == Atoi(req[p].idStr).n

\* The store as provisioned, and no request under way.
InitStore ==
    /\ balance = [c \in Customers |-> InitialBalance]
    /\ transactions = <<>>
    /\ pc = [p \in Procs |-> "idle"]
    /\ req = [p \in Procs |-> NoRequest]
    /\ loc = [p \in Procs |-> LocInit]
    /\ nreq = 0

\* The service once main has connected at its first attempt, registered
\* the handlers and is listening.
Init ==
    /\ InitStore
    /\ main = [pc |-> "serving", i |-> 0, db |-> "pool",
               saidConnected |-> TRUE]

\* The process at the start of main's connection loop.
InitStartup ==
    /\ InitStore
    /\ main = [pc |-> "connect", i |-> 0, db |-> "nil",
               saidConnected |-> FALSE]

\* The handlers are registered and http.ListenAndServe is running.
Serving == main.pc = "serving"

Free(p) == Serving /\ pc[p] \in {"idle", "done"}

(***************************************************************************)
(* main: the connection loop and what follows it.                          *)
(***************************************************************************)
\* pgxpool.New returns no error: break.
ConnectOK ==
    /\ main.pc = "connect"
    /\ main.i < MaxConnectAttempts
    /\ main' = [main EXCEPT !.db = "pool", !.pc = "connected"]
    /\ UNCHANGED <<balance, transactions, pc, req, loc, nreq>>

\* pgxpool.New returns an error (and a nil pool): print, sleep 5 seconds,
\* i++.  The loop ends when i reaches 10.
ConnectFails ==
    /\ main.pc = "connect"
    /\ main.i < MaxConnectAttempts
    /\ main' = [main EXCEPT !.db = "nil", !.i = main.i + 1,
                            !.pc = IF main.i + 1 < MaxConnectAttempts
                                   THEN "connect" ELSE "connected"]
    /\ UNCHANGED <<balance, transactions, pc, req, loc, nreq>>

\* After the loop, whatever its outcome: println("Connected to DB"),
\* defer db.Close(), db.Config()..., the handlers, ListenAndServe.  On a
\* nil pool db.Config() dereferences nil and the process panics.
Configure ==
    /\ main.pc = "connected"
    /\ main' = [main EXCEPT !.saidConnected = TRUE,
                            !.pc = IF main.db = "nil" THEN "panicked"
                                   ELSE "serving"]
    /\ UNCHANGED <<balance, transactions, pc, req, loc, nreq>>

(***************************************************************************)
(* handleTransactions.                                                     *)
(***************************************************************************)
\* A request arrives; the body is decoded and the checks run (they touch no
\* shared state).  A failed check writes the response and returns.
StartTransaction(p, I, max) ==
    /\ Free(p)
    /\ nreq < max
    /\ \E idStr \in I.ids, v \in I.values, t \in I.types, d \in I.descs,
          ok \in I.decode :
          LET r == [op |-> "transacoes", idStr |-> idStr, decodeOK |-> ok,
                    Value |-> v, Type |-> t, Descricao |-> d]
              st == ValidateTransaction(r)
          IN  /\ req' = [req EXCEPT ![p] = r]
              /\ loc' = [loc EXCEPT ![p] = [LocInit EXCEPT !.status = st]]
              /\ pc' = [pc EXCEPT ![p] = IF st = 0 THEN "call" ELSE "done"]
    /\ nreq' = nreq + 1
    /\ UNCHANGED <<balance, transactions, main>>

\* The connections of the pool in use: a statement request holds one from
\* db.Begin to the end of the handler (tx.Commit, or the deferred
\* tx.Rollback); db.QueryRow takes one and gives it back in Scan.
InUse ==
    Cardinality({p \in DOMAIN pc :
                    pc[p] \in {"selectBalance", "selectRows"}})

\* pool.Acquire under r.Context(): waits until a connection is free; it
\* returns an error, at any time, when the client goes away.
Acquire == InUse < MaxConns

\* db.QueryRow(... credit/debit ...).Scan(&newBalance, &success, &limit):
\* the stored function runs as one database transaction.
CallStore(p) ==
    /\ pc[p] = "call"
    /\ Acquire
    /\ LET out == StoreCall(balance, transactions, customerID(p), req[p])
       IN  /\ balance' = out.balance
           /\ transactions' = out.transactions
           /\ loc' = [loc EXCEPT ![p].newBalance = out.newBalance,
                                 ![p].success = out.success,
                                 ![p].limit = out.limit,
                                 ![p].at = Len(out.transactions),
                                 ![p].called = TRUE,
                                 ![p].calls = Min(loc[p].calls + 1, MaxCalls),
                                 ![p].added = loc[p].added
                                     + Len(out.transactions) - Len(transactions),
                                 ![p].wrote = (out.balance /= balance
                                               \/ out.transactions /= transactions)]
    /\ pc' = [pc EXCEPT ![p] = "respond"]
    /\ UNCHANGED <<req, nreq, main>>

\* The store is unreachable or the call fails: Scan returns an error and
\* nothing is changed.
CallStoreFails(p) ==
    /\ pc[p] = "call"
    /\ loc' = [loc EXCEPT ![p].err = TRUE, ![p].failed = TRUE,
                          ![p].called = TRUE,
                          ![p].calls = Min(loc[p].calls + 1, MaxCalls),
                          ![p].at = Len(transactions)]
    /\ pc' = [pc EXCEPT ![p] = "respond"]
    /\ UNCHANGED <<balance, transactions, req, nreq, main>>

\* RespondTransaction with a retry: on an error the store call is made
\* again.
RespondTransactionRetry(p) ==
    /\ pc[p] = "respond"
    /\ IF loc[p].err
       THEN /\ loc' = [loc EXCEPT ![p].err = FALSE]
            /\ pc' = [pc EXCEPT ![p] = "call"]
       ELSE /\ loc' = [loc EXCEPT ![p].status =
                                      ResponseStatus(loc[p].err, loc[p].success)]
            /\ pc' = [pc EXCEPT ![p] = "done"]
    /\ UNCHANGED <<balance, transactions, req, nreq, main>>

\* The response: 422 {} on an error or success = false, else 200 with
\* limite and saldo.
RespondTransaction(p) ==
    /\ pc[p] = "respond"
    /\ loc' = [loc EXCEPT ![p].status =
                              ResponseStatus(loc[p].err, loc[p].success)]
    /\ pc' = [pc EXCEPT ![p] = "done"]
    /\ UNCHANGED <<balance, transactions, req, nreq, main>>

(***************************************************************************)
(* handleStatement.                                                        *)
(***************************************************************************)
StartStatement(p, I, max) ==
    /\ Free(p)
    /\ nreq < max
    /\ \E idStr \in I.ids :
          LET r == [NoRequest EXCEPT !.op = "extrato", !.idStr = idStr]
              st == ValidateStatement(r)
          IN  /\ req' = [req EXCEPT ![p] = r]
              /\ loc' = [loc EXCEPT ![p] = [LocInit EXCEPT !.status = st]]
              /\ pc' = [pc EXCEPT ![p] = IF st = 0 THEN "begin" ELSE "done"]
    /\ nreq' = nreq + 1
    /\ UNCHANGED <<balance, transactions, main>>

\* tx, err := db.Begin(ctx): a transaction at the server's default
\* isolation level (READ COMMITTED: every statement reads the state
\* committed when it starts).
Begin(p) ==
    /\ pc[p] = "begin"
    /\ Acquire
    /\ pc' = [pc EXCEPT ![p] = "selectBalance"]
    /\ UNCHANGED <<balance, transactions, req, loc, nreq, main>>

\* db.Begin fails: 500.
BeginFails(p) ==
    /\ pc[p] = "begin"
    /\ loc' = [loc EXCEPT ![p].err = TRUE, ![p].failed = TRUE,
                          ![p].status = StatusInternalServerError]
    /\ pc' = [pc EXCEPT ![p] = "done"]
    /\ UNCHANGED <<balance, transactions, req, nreq, main>>

\* tx.QueryRow(SELECT "limit", balance ...).Scan(&limit, &balance).
SelectBalance(p) ==
    /\ pc[p] = "selectBalance"
    /\ LET got == ScanBalance(balance, customerID(p))
       IN  loc' = [loc EXCEPT ![p].limit = got.limit,
                              ![p].balance = got.balance,
                              ![p].at = Len(transactions)]
    /\ pc' = [pc EXCEPT ![p] = "selectRows"]
    /\ UNCHANGED <<balance, transactions, req, nreq, main>>

\* The same statement fails.  Scan's error is not looked at: limit and
\* balance keep their zero values and the handler goes on.  The failed
\* statement leaves the database transaction aborted (or its connection
\* closed), so that the statements after it fail.
SelectBalanceFails(p) ==
    /\ pc[p] = "selectBalance"
    /\ loc' = [loc EXCEPT ![p].txBroken = TRUE, ![p].failed = TRUE,
                          ![p].at = Len(transactions)]
    /\ pc' = [pc EXCEPT ![p] = "selectRows"]
    /\ UNCHANGED <<balance, transactions, req, nreq, main>>

\* SelectRows with a query that also deletes the rows older than the 10
\* most recent of the table.
SelectRowsPruning(p) ==
    /\ pc[p] = "selectRows"
    /\ ~loc[p].txBroken
    /\ loc' = [loc EXCEPT ![p].rows =
                              QueryTransactions(transactions, customerID(p)),
                          ![p].atRows = Len(transactions),
                          ![p].status = StatusOK]
    /\ transactions' =
          SubSeq(transactions,
                 Len(transactions) + 1 - Min(StatementLimit, Len(transactions)),
                 Len(transactions))
    /\ pc' = [pc EXCEPT ![p] = "done"]
    /\ UNCHANGED <<balance, req, nreq, main>>

\* rows, err := tx.Query(...), the rows.Next() loop, tx.Commit and the
\* response: 200 with saldo and ultimas_transacoes.
SelectRows(p) ==
    /\ pc[p] = "selectRows"
    /\ ~loc[p].txBroken
    /\ loc' = [loc EXCEPT ![p].rows =
                              QueryTransactions(transactions, customerID(p)),
                          ![p].atRows = Len(transactions),
                          ![p].status = StatusOK]
    /\ pc' = [pc EXCEPT ![p] = "done"]
    /\ UNCHANGED <<balance, transactions, req, nreq, main>>

\* tx.Query succeeds and the connection fails while the rows are read:
\* rows.Next() returns false after k rows, and neither rows.Err() nor the
\* error of tx.Commit is looked at.  The handler answers 200 with the rows
\* it got.
SelectRowsBreaks(p) ==
    /\ pc[p] = "selectRows"
    /\ ~loc[p].txBroken
    /\ \E k \in 0..Len(QueryTransactions(transactions, customerID(p))) :
          loc' = [loc EXCEPT ![p].rows =
                                 SubSeq(QueryTransactions(transactions,
                                                          customerID(p)),
                                        1, k),
                             ![p].atRows = Len(transactions),
                             ![p].failed = TRUE,
                             ![p].status = StatusOK]
    /\ pc' = [pc EXCEPT ![p] = "done"]
    /\ UNCHANGED <<balance, transactions, req, nreq, main>>

\* tx.Query fails: 500.
SelectRowsFails(p) ==
    /\ pc[p] = "selectRows"
    /\ loc' = [loc EXCEPT ![p].err = TRUE, ![p].failed = TRUE,
                          ![p].atRows = Len(transactions),
                          ![p].status = StatusInternalServerError]
    /\ pc' = [pc EXCEPT ![p] = "done"]
    /\ UNCHANGED <<balance, transactions, req, nreq, main>>

\* The steps of a request under way.
Step(p) ==
    \/ CallStore(p)
    \/ CallStoreFails(p)
    \/ RespondTransaction(p)
    \/ Begin(p)
    \/ BeginFails(p)
    \/ SelectBalance(p)
    \/ SelectBalanceFails(p)
    \/ SelectRows(p)
    \/ SelectRowsBreaks(p)
    \/ SelectRowsFails(p)

(***************************************************************************)
(* Specifications.                                                         *)
(*   Spec        concurrent requests on two customers                      *)
(*   SpecSeq     one request at a time on one customer, long histories     *)
(*   SpecHistory one request at a time, long histories of credits on two   *)
(*               customers                                                 *)
(*   SpecInputs  one request at a time over the wide input sets            *)
(*   SpecStartup main from its first connection attempt, then one request  *)
(*               at a time                                                 *)
(***************************************************************************)
Inputs ==
    [ids |-> {"1", "5"}, values |-> {-150, 80}, types |-> {"c", "d"},
     descs |-> {DescOK}, decode |-> {TRUE}]

SeqInputs ==
    [ids |-> {"1"}, values |-> {80}, types |-> {"c", "d"},
     descs |-> {DescOK}, decode |-> {TRUE}]

HistoryInputs ==
    [ids |-> {"1", "5"}, values |-> {80}, types |-> {"c"},
     descs |-> {DescOK}, decode |-> {TRUE}]

WideInputs ==
    [ids |-> {"0", "1", "5", "6", "x"}, values |-> {-150, 0, 1, 150},
     types |-> {"c", "d", "x", ""},
     descs |-> {DescEmpty, DescOK, DescTen, DescEleven, DescWide,
                DescWideEleven},
     decode |-> {TRUE, FALSE}]

Next ==
    \E p \in Procs :
        \/ StartTransaction(p, Inputs, MaxReqs)
        \/ StartStatement(p, Inputs, MaxReqs)
        \/ Step(p)

NextSeq ==
    \/ StartTransaction(1, SeqInputs, MaxSeqReqs)
    \/ StartStatement(1, SeqInputs, MaxSeqReqs)
    \/ Step(1)

NextHistory ==
    \/ StartTransaction(1, HistoryInputs, MaxSeqReqs)
    \/ StartStatement(1, HistoryInputs, MaxSeqReqs)
    \/ Step(1)

PoolStatements ==
    [ids |-> {"5"}]

PoolCredits ==
    [ids |-> {"1", "5"}, values |-> {80}, types |-> {"c"},
     descs |-> {DescOK}, decode |-> {TRUE}]

\* One request more than the pool has connections, each process serving
\* one request: statements on customer 5 and a credit on customer 1 or 5.
InitPool ==
    /\ balance = [c \in Customers |-> InitialBalance]
    /\ transactions = <<>>
    /\ pc = [p \in PoolProcs |-> "idle"]
    /\ req = [p \in PoolProcs |-> NoRequest]
    /\ loc = [p \in PoolProcs |-> LocInit]
    /\ nreq = 0
    /\ main = [pc |-> "serving", i |-> 0, db |-> "pool",
               saidConnected |-> TRUE]

NextPool ==
    \/ \E p \in 1..MaxConns :
          pc[p] = "idle" /\ StartStatement(p, PoolStatements, NumPoolProcs)
    \/ pc[NumPoolProcs] = "idle"
          /\ StartTransaction(NumPoolProcs, PoolCredits, NumPoolProcs)
    \/ \E p \in PoolProcs : Step(p)

NextInputs ==
    \/ StartTransaction(1, WideInputs, MaxInputReqs)
    \/ StartStatement(1, WideInputs, MaxInputReqs)
    \/ Step(1)

NextStartup ==
    \/ ConnectOK
    \/ ConnectFails
    \/ Configure
    \/ StartTransaction(1, SeqInputs, MaxInputReqs)
    \/ StartStatement(1, SeqInputs, MaxInputReqs)
    \/ Step(1)

Spec == Init /\ [][Next]_vars

SpecStartup == InitStartup /\ [][NextStartup]_vars

SpecSeq == Init /\ [][NextSeq]_vars

SpecHistory == Init /\ [][NextHistory]_vars

SpecPool == InitPool /\ [][NextPool]_vars

\* Every handler that can take its next step eventually takes one: the
\* goroutine of a request is scheduled and the database answers.
SpecPoolFair == SpecPool /\ \A p \in PoolProcs : WF_vars(Step(p))

SpecInputs == Init /\ [][NextInputs]_vars

(***************************************************************************)
(* Definitions the properties share.                                       *)
(***************************************************************************)
\* The effect of a row on the balance of its customer.
Effect(r) == IF r.type = "c" THEN r.amount ELSE -r.amount

RECURSIVE SumEffects(_)
SumEffects(rows) ==
    IF rows = <<>> THEN 0 ELSE Effect(Head(rows)) + SumEffects(Tail(rows))

\* The rows of customer c among the first n rows of the table.
LogOf(c, n) ==
    SelectSeq(SubSeq(transactions, 1, n), LAMBDA r : r.customer_id = c)

\* The balance of customer c that the first n rows of the table add up to.
Replay(c, n) == InitialBalance + SumEffects(LogOf(c, n))

\* p is (or was last) handling a transaction request that passed the checks
\* and whose store call returned without an error.
Called(p) ==
    /\ req[p].op = "transacoes"
    /\ loc[p].called
    /\ ~loc[p].failed

\* The number of rows of the table just before p's store call.
Before(p) == IF loc[p].wrote THEN loc[p].at - 1 ELSE loc[p].at

\* p has answered a statement request with 200.
Answered(p) ==
    /\ req[p].op = "extrato"
    /\ pc[p] = "done"
    /\ loc[p].status = StatusOK

(***************************************************************************)
(* C1.  The balance of every customer is at least -limit in every          *)
(* reachable state, under any interleaving of accepted and rejected        *)
(* credits and debits; so is every balance an accepted request returns.    *)
(***************************************************************************)
C1_BalanceWithinLimit ==
    /\ \A c \in Customers : balance[c] >= -Limit(c)
    /\ \A p \in Procs :
          Called(p) /\ loc[p].success =>
              loc[p].newBalance >= -Limit(customerID(p))

\* A debit has been accepted, the balance is negative, and another debit on
\* the same customer has been rejected.
C1_Witness ==
    \E p, q \in Procs :
        /\ p /= q
        /\ Called(p) /\ Called(q)
        /\ customerID(p) = 1 /\ customerID(q) = 1
        /\ req[p].Type = "d" /\ loc[p].success
        /\ req[q].Type = "d" /\ ~loc[q].success
        /\ balance[1] = -80

(***************************************************************************)
(* C2.  Two debits on the same customer never both succeed against the     *)
(* same balance: each one is decided against the balance that the rows     *)
(* before it add up to, the ones of the other debit included.  An accepted *)
(* debit returns that balance less its amount, which is at least -limit; a *)
(* rejected one would have gone below -limit.  With limit 100, balance 0   *)
(* and two debits of 80 and no other transaction of the customer between   *)
(* them, the first is accepted, the second rejected, and the balance is    *)
(* -80.                                                                    *)
(***************************************************************************)
C2_ConcurrentDebits ==
    \A p, q \in Procs :
        (/\ p /= q
         /\ Called(p) /\ Called(q)
         /\ req[p].Type = "d" /\ req[q].Type = "d"
         /\ customerID(p) = customerID(q))
        =>
        LET c == customerID(q)
            pre == Replay(c, Before(q))
        IN  /\ loc[q].success <=> (pre - req[q].Value >= -Limit(c))
            /\ loc[q].success =>
                  /\ loc[q].newBalance = pre - req[q].Value
                  /\ loc[q].newBalance >= -Limit(c)
                  /\ Replay(c, loc[q].at) = loc[q].newBalance
            /\ ~(loc[p].success /\ loc[q].success /\ Before(p) = Before(q))
            /\ (/\ req[p].Value = 80 /\ req[q].Value = 80
                /\ Limit(c) = 100
                /\ Replay(c, Before(p)) = 0
                /\ Before(p) <= Before(q)
                /\ LogOf(c, Before(q)) = LogOf(c, Min(Before(p) + 1, Before(q))))
               =>
               /\ loc[p].success
               /\ ~loc[q].success
               /\ Replay(c, loc[q].at) = -80

\* Two debits of 80 on customer 1 (limit 100, balance 0) are between their
\* store call and their response at the same time: one was accepted, the
\* other rejected, and the balance is -80.
C2_Witness ==
    \E p, q \in Procs :
        /\ p /= q
        /\ pc[p] = "respond" /\ pc[q] = "respond"
        /\ req[p].Type = "d" /\ req[q].Type = "d"
        /\ req[p].Value = 80 /\ req[q].Value = 80
        /\ customerID(p) = 1 /\ customerID(q) = 1
        /\ loc[p].success /\ ~loc[q].success /\ ~loc[q].failed
        /\ Len(transactions) = 1
        /\ balance[1] = -80

(***************************************************************************)
(* C3.  Every transaction a statement lists is reflected in the balance    *)
(* the statement returns: the balance read and the transactions read see   *)
(* the same committed state.                                               *)
(***************************************************************************)
C3_StatementNeverStraddles ==
    \A p \in Procs :
        Answered(p) =>
            /\ \A i \in 1..Len(loc[p].rows) : loc[p].rows[i].id <= loc[p].at
            /\ loc[p].balance = Replay(customerID(p), loc[p].atRows)

(***************************************************************************)
(* C4.  No request sees a balance that holds the effect of a transaction   *)
(* whose row is missing from the log the same request sees.  A statement   *)
(* lists every transaction its balance holds, unless its list is full (10  *)
(* rows) with newer ones only; the balance a store call returns is the one *)
(* the rows present at that moment add up to.                              *)
(***************************************************************************)
C4_BalanceNeverAheadOfLog ==
    \A p \in Procs :
        /\ Answered(p) =>
              LET c == customerID(p)
                  held == LogOf(c, loc[p].at)
                  listed == {loc[p].rows[i].id : i \in 1..Len(loc[p].rows)}
              IN  /\ loc[p].balance = Replay(c, loc[p].at)
                  /\ \A k \in 1..Len(held) :
                        \/ held[k].id \in listed
                        \/ /\ Len(loc[p].rows) = StatementLimit
                           /\ \A id \in listed : id > held[k].id
        /\ Called(p) =>
              loc[p].newBalance = Replay(customerID(p), loc[p].at)

\* A statement answered with a balance that holds a transaction, which it
\* lists, while another request on the same customer has passed its store
\* call and not yet responded.
C4_Witness ==
    \E p, q \in Procs :
        /\ p /= q
        /\ Answered(p)
        /\ loc[p].at > 0
        /\ loc[p].balance /= 0
        /\ Len(loc[p].rows) > 0
        /\ pc[q] = "respond" /\ loc[q].success
        /\ customerID(q) = customerID(p)

C6_RejectionChangesNothing ==
    \A p \in Procs :
        (req[p].op = "transacoes" /\ ~loc[p].failed) =>
            /\ (pc[p] = "done" /\ loc[p].status \in
                    {StatusNotFound, StatusUnprocessableEntity})
               => ~loc[p].wrote
            /\ (pc[p] = "respond" /\ ~loc[p].success) => ~loc[p].wrote
            /\ (/\ pc[p] = "done" /\ loc[p].called
                /\ req[p].idStr = "1" /\ req[p].Type = "d"
                /\ req[p].Value = 150
                /\ Replay(1, Before(p)) = 0)
               =>
               /\ loc[p].status = StatusUnprocessableEntity
               /\ balance[1] = 0
               /\ Len(transactions) = loc[p].at

\* The debit of 150 on customer 1 (limit 100, balance 0) has been rejected
\* by the store and answered 422, with rows of another customer in the
\* table.
C6_Witness ==
    \E p \in Procs :
        /\ req[p].op = "transacoes" /\ pc[p] = "done"
        /\ loc[p].called /\ ~loc[p].failed
        /\ req[p].idStr = "1" /\ req[p].Type = "d" /\ req[p].Value = 150
        /\ loc[p].status = StatusUnprocessableEntity
        /\ balance[1] = 0
        /\ Len(transactions) = 1

(***************************************************************************)
(* C7.  A transaction request that passed the checks: a credit is always   *)
(* accepted and makes the balance balance + amount; a debit is accepted if *)
(* and only if balance - amount >= -limit, and then makes the balance      *)
(* balance - amount; an accepted request is answered 200 with the balance  *)
(* right after its own update and the limit of the customer, whatever      *)
(* other requests on the customer do at the same time.                     *)
(***************************************************************************)
C7_ApplyOutcome ==
    \A p \in Procs :
        Called(p) =>
            LET c == customerID(p)
                v == req[p].Value
                pre == Replay(c, Before(p))
            IN  /\ req[p].Type = "c" =>
                      /\ loc[p].success
                      /\ loc[p].newBalance = pre + v
                /\ req[p].Type = "d" =>
                      /\ loc[p].success <=> (pre - v >= -Limit(c))
                      /\ loc[p].success => loc[p].newBalance = pre - v
                /\ loc[p].success =>
                      /\ loc[p].wrote
                      /\ loc[p].limit = Limit(c)
                      /\ Replay(c, loc[p].at) = loc[p].newBalance
                      /\ transactions[loc[p].at].customer_id = c
                      /\ transactions[loc[p].at].amount = v
                      /\ transactions[loc[p].at].type = req[p].Type
                /\ pc[p] = "done" =>
                      (loc[p].status = StatusOK <=> loc[p].success)

\* A credit and a debit of 80 on customer 1 are between their store call
\* and their response at the same time; the credit returns 80, the balance
\* right after its own update, while the balance is already 0.
C7_Witness ==
    \E p, q \in Procs :
        /\ p /= q
        /\ pc[p] = "respond" /\ pc[q] = "respond"
        /\ customerID(p) = 1 /\ customerID(q) = 1
        /\ req[p].Type = "c" /\ loc[p].success /\ loc[p].newBalance = 80
        /\ req[q].Type = "d" /\ loc[q].success /\ loc[q].newBalance = 0
        /\ balance[1] = 0

(***************************************************************************)
(* C8.  The transactions of a statement are rows of its own customer, in   *)
(* strictly descending id order, the most recent ones the table held when  *)
(* the query ran, and min(10, rows of the customer) in number; the         *)
(* response lists them in that order.                                      *)
(***************************************************************************)
C8_LastTransactions ==
    \A p \in Procs :
        Answered(p) =>
            LET c == customerID(p)
                all == LogOf(c, loc[p].atRows)
                rows == loc[p].rows
                out == ScanRows(rows)
                listed == {rows[i].id : i \in 1..Len(rows)}
            IN  /\ Len(rows) = Min(StatementLimit, Len(all))
                /\ \A i \in 1..Len(rows) :
                      /\ rows[i].customer_id = c
                      /\ rows[i].id \in 1..loc[p].atRows
                      /\ transactions[rows[i].id] = rows[i]
                /\ \A i, j \in 1..Len(rows) :
                      i < j => rows[i].id > rows[j].id
                /\ \A k \in 1..Len(all) :
                      (\E id \in listed : all[k].id >= id)
                          => all[k].id \in listed
                /\ Len(all) > 0 => rows[1] = all[Len(all)]
                /\ Len(out) = Len(rows)
                /\ \A i \in 1..Len(out) :
                      /\ out[i].Value = rows[i].amount
                      /\ out[i].Type = rows[i].type
                      /\ out[i].Desc = rows[i].description

\* A statement of a customer with 11 rows lists 10, while the table holds
\* rows of another customer, one of them newer than a listed row.
C8_Witness ==
    \E p \in Procs :
        /\ Answered(p)
        /\ Len(LogOf(customerID(p), loc[p].atRows)) = 11
        /\ Len(loc[p].rows) = 10
        /\ \E k \in 1..loc[p].atRows :
              /\ transactions[k].customer_id /= customerID(p)
              /\ k > loc[p].rows[10].id

(***************************************************************************)
(* C9.  As claimed: a transaction request whose path id is no provisioned  *)
(* customer is answered 404 whatever its amount, type and description.     *)
(***************************************************************************)
Provisioned(idStr) == idStr \in {"1", "2", "3", "4", "5"}

BodyValid(r) ==
    /\ r.decodeOK
    /\ r.Value >= 1
    /\ r.Type \in {"c", "d"}
    /\ Len(r.Descricao) >= 1 /\ Len(r.Descricao) <= 10

C9_AccountCheckedFirst ==
    \A p \in Procs :
        (req[p].op = "transacoes" /\ pc[p] = "done"
         /\ ~Provisioned(req[p].idStr))
        => loc[p].status = StatusNotFound

(***************************************************************************)
(* C9, as amended.  The body, the amount, the type and the description are *)
(* checked before the path id: a request with any of them invalid is       *)
(* answered 422 whatever its path id, and a request whose path id is no    *)
(* provisioned customer is answered 404 only when all of them are valid.   *)
(***************************************************************************)
C9_AccountCheckedLast ==
    \A p \in Procs :
        req[p].op = "transacoes" =>
            /\ ~BodyValid(req[p]) =>
                  /\ pc[p] = "done"
                  /\ loc[p].status = StatusUnprocessableEntity
                  /\ ~loc[p].called
            /\ (BodyValid(req[p]) /\ ~Provisioned(req[p].idStr)) =>
                  /\ pc[p] = "done"
                  /\ loc[p].status = StatusNotFound
                  /\ ~loc[p].called
            /\ (BodyValid(req[p]) /\ Provisioned(req[p].idStr)) =>
                  (pc[p] = "call" \/ loc[p].called)

\* A request with amount 0 on the path id 6 has been answered 422, and
\* not 404.
C9_Witness ==
    \E p \in Procs :
        /\ req[p].op = "transacoes" /\ pc[p] = "done"
        /\ req[p].idStr = "6" /\ req[p].decodeOK /\ req[p].Value = 0
        /\ loc[p].status = StatusUnprocessableEntity

(***************************************************************************)
(* C10.  A request during which a store call failed ends with a status of  *)
(* its own (500), which no rejection uses, and never with 200.             *)
(***************************************************************************)
C10_StoreFailureIsExplicit ==
    \A p \in Procs :
        (pc[p] = "done" /\ loc[p].failed) =>
            loc[p].status = StatusInternalServerError

(***************************************************************************)
(* C11.  A statement answered 200 had no failed store read: its balance,   *)
(* its limit and every transaction it lists were read from the store, and  *)
(* the rows it lists are all the rows its query selected.                  *)
(***************************************************************************)
C11_NoReadErrorDiscarded ==
    \A p \in Procs :
        Answered(p) =>
            /\ ~loc[p].failed
            /\ Len(loc[p].rows) =
                  Min(StatementLimit, Len(LogOf(customerID(p), loc[p].atRows)))

(***************************************************************************)
(* C18.  main makes at most 10 connection attempts; when all of them fail  *)
(* it does not say it is connected, does not crash and does not serve.     *)
(***************************************************************************)
C18_StartupReportsFailure ==
    /\ main.i <= MaxConnectAttempts
    /\ main.db = "nil" =>
          /\ ~main.saidConnected
          /\ main.pc \notin {"serving", "panicked"}

(***************************************************************************)
(* C12.  A request whose path id is no provisioned customer (a statement,  *)
(* or a transaction with a valid body) is answered 404 at once: it makes   *)
(* no store call, reads nothing and changes nothing.                       *)
(***************************************************************************)
C12_UnknownAccountNotFound ==
    \A p \in Procs :
        (/\ req[p].op \in {"transacoes", "extrato"}
         /\ ~Provisioned(req[p].idStr)
         /\ req[p].op = "transacoes" => BodyValid(req[p]))
        =>
        /\ pc[p] = "done"
        /\ loc[p] = [LocInit EXCEPT !.status = StatusNotFound]

\* A transaction with a valid body on the path id 6 has been answered 404
\* and the row of an earlier transaction is still the only one.
C12_Witness ==
    \E p \in Procs :
        /\ req[p].op = "transacoes" /\ BodyValid(req[p])
        /\ req[p].idStr = "6"
        /\ pc[p] = "done" /\ loc[p].status = StatusNotFound
        /\ Len(transactions) = 1
        /\ balance[transactions[1].customer_id] /= InitialBalance

(***************************************************************************)
(* C13.  A transaction request on a provisioned customer passes the checks *)
(* if and only if its body decodes, its amount is at least 1, its type is  *)
(* "c" or "d" and its description has 1 to 10 codepoints (whatever their   *)
(* size in bytes); any other is answered 422 without a store call.         *)
(***************************************************************************)
C13_ValidationRule ==
    \A p \in Procs :
        (req[p].op = "transacoes" /\ Provisioned(req[p].idStr)) =>
            LET r == req[p]
                passed == pc[p] = "call" \/ loc[p].called
                valid == /\ r.decodeOK
                         /\ r.Value >= 1
                         /\ r.Type \in {"c", "d"}
                         /\ Len(r.Descricao) \in 1..10
            IN  /\ passed <=> valid
                /\ ~valid =>
                      /\ pc[p] = "done"
                      /\ loc[p].status = StatusUnprocessableEntity
                /\ r.Descricao \in {DescEmpty, DescEleven, DescWideEleven}
                      => ~passed
                /\ (/\ r.Descricao \in {DescOK, DescTen, DescWide}
                    /\ r.decodeOK /\ r.Value \in {1, 150}
                    /\ r.Type \in {"c", "d"})
                      => passed

\* A credit with a description of 6 codepoints in 12 bytes has been
\* accepted, and answered 200.
C13_Witness ==
    \E p \in Procs :
        /\ req[p].op = "transacoes"
        /\ req[p].Descricao = DescWide
        /\ loc[p].called /\ loc[p].wrote
        /\ pc[p] = "done" /\ loc[p].status = StatusOK

(***************************************************************************)
(* C14.  The transactions table only grows, one row at a time: every step  *)
(* keeps the rows it had, unchanged and in place (rows older than the 10   *)
(* most recent included); a row is added exactly by a store call that      *)
(* succeeds, and its id is greater than every id before it.                *)
(***************************************************************************)
C14_LogAppendOnly ==
    [][/\ Len(transactions') \in {Len(transactions), Len(transactions) + 1}
       /\ SubSeq(transactions', 1, Len(transactions)) = transactions
       /\ Len(transactions') = Len(transactions) + 1 =>
             /\ \A k \in 1..Len(transactions) :
                   transactions'[Len(transactions')].id > transactions[k].id
             /\ \E p \in Procs :
                   /\ pc[p] = "call" /\ pc'[p] = "respond"
                   /\ loc'[p].success
                   /\ transactions'[Len(transactions')].customer_id
                         = Atoi(req[p].idStr).n
       /\ \A p \in Procs :
             (pc[p] = "call" /\ pc'[p] = "respond" /\ loc'[p].success)
                 => Len(transactions') = Len(transactions) + 1
      ]_vars

\* The table holds 12 rows, the first of them the first one inserted, after
\* a statement that listed the 10 most recent.
C14_Witness ==
    \E p \in Procs :
        /\ Answered(p)
        /\ Len(transactions) = 12
        /\ transactions[1].id = 1
        /\ Len(loc[p].rows) = StatementLimit
        /\ loc[p].rows[StatementLimit].id = 3

(***************************************************************************)
(* C15.  A store call on customer A leaves the balance and the rows of     *)
(* every other customer as they were, and its outcome is decided by A's    *)
(* balance alone; no step of a request waits for another request: the      *)
(* next statement of every request under way can always be executed.       *)
(***************************************************************************)
RowsOf(tbl, c) == SelectSeq(tbl, LAMBDA r : r.customer_id = c)

C15_AccountsIndependent ==
    [][/\ \A p \in DOMAIN pc :
             (pc[p] = "call" /\ pc'[p] = "respond") =>
                 LET A == Atoi(req[p].idStr).n
                     v == req[p].Value
                 IN  /\ \A B \in Customers \ {A} :
                           /\ balance'[B] = balance[B]
                           /\ RowsOf(transactions', B) = RowsOf(transactions, B)
                     /\ ~loc'[p].failed =>
                           /\ loc'[p].success =
                                 (\/ req[p].Type = "c"
                                  \/ balance[A] - v >= -Limit(A))
                           /\ loc'[p].success =>
                                 loc'[p].newBalance =
                                     IF req[p].Type = "c"
                                     THEN balance[A] + v ELSE balance[A] - v
       /\ \A p \in DOMAIN pc :
             /\ pc[p] = "call" => ENABLED CallStore(p)
             /\ pc[p] = "begin" => ENABLED Begin(p)
             /\ pc[p] = "selectBalance" => ENABLED SelectBalance(p)
             /\ (pc[p] = "selectRows" /\ ~loc[p].txBroken)
                   => ENABLED SelectRows(p)
      ]_vars

(***************************************************************************)
(* C17.  A step of a statement request leaves every balance and the        *)
(* transactions table unchanged; the store changes only in the store call  *)
(* of a transaction request; the set of customers never changes, and every *)
(* limit a request reads is the customer's provisioned limit.              *)
(***************************************************************************)
C17_OnlyApplyWrites ==
    [][/\ DOMAIN balance' = Customers
       /\ \A p \in Procs :
             (/\ req'[p].op = "extrato"
              /\ (pc'[p] /= pc[p] \/ loc'[p] /= loc[p] \/ req'[p] /= req[p]))
             => /\ balance' = balance
                /\ transactions' = transactions
       /\ (balance' /= balance \/ transactions' /= transactions) =>
             \E p \in Procs :
                 /\ req[p].op = "transacoes"
                 /\ pc[p] = "call" /\ pc'[p] = "respond"
       /\ \A p \in Procs :
             /\ (req'[p].op = "extrato" /\ pc'[p] = "done"
                 /\ loc'[p].status = StatusOK)
                   => loc'[p].limit = Limit(Atoi(req'[p].idStr).n)
             /\ (req'[p].op = "transacoes" /\ loc'[p].success)
                   => loc'[p].limit = Limit(Atoi(req'[p].idStr).n)
      ]_vars

\* A statement answered 200 on a customer with 11 rows and a balance other
\* than the initial one, which it shows.
C17_Witness ==
    \E p \in Procs :
        /\ Answered(p) /\ ~loc[p].failed
        /\ Len(transactions) = 11
        /\ loc[p].balance = balance[customerID(p)]
        /\ loc[p].balance /= InitialBalance
        /\ loc[p].limit = 100

(***************************************************************************)
(* C19.  A transaction request makes at most one store call, also when the *)
(* call fails: it changes the balance at most once and adds at most one    *)
(* row, and none when its call failed.                                     *)
(***************************************************************************)
C19_NoRetry ==
    \A p \in Procs :
        req[p].op = "transacoes" =>
            /\ loc[p].calls <= 1
            /\ loc[p].called <=> loc[p].calls = 1
            /\ loc[p].added <= 1
            /\ loc[p].added = (IF loc[p].wrote THEN 1 ELSE 0)
            /\ loc[p].failed => (loc[p].added = 0 /\ ~loc[p].wrote)
            /\ pc[p] = "done" => (loc[p].status = StatusOK <=> loc[p].added = 1)

\* A request whose store call failed has been answered, after one call,
\* while the other request's call on the same customer added its row.
C19_Witness ==
    \E p, q \in Procs :
        /\ p /= q
        /\ req[p].op = "transacoes" /\ req[q].op = "transacoes"
        /\ req[p].idStr = req[q].idStr
        /\ pc[p] = "done" /\ loc[p].failed /\ loc[p].calls = 1
        /\ loc[p].status = StatusUnprocessableEntity
        /\ loc[q].added = 1
        /\ Len(transactions) = 1

====
